---------------------------- MODULE Spec2Model ----------------------------
(***************************************************************************)
(* JuliaBridge (packages/core/src/bridge/JuliaBridge.ts): the bridge       *)
(* between local callers and the external Julia process.                   *)
(*                                                                         *)
(* The bridge is one JavaScript object driven by one event loop, so every  *)
(* handler runs to completion.  Each handler of the class is an operator   *)
(* from bridge state to bridge state (a record with one field per          *)
(* variable), named as in the source; an action applies one handler to the *)
(* current state.  A promise continuation (the code after an `await`) runs *)
(* as a microtask right after the handler that settled the promise, so it  *)
(* is part of that handler's action.                                       *)
(***************************************************************************)
EXTENDS Integers, Sequences, FiniteSets, TLC

(***************************************************************************)
(* Bounds of the model.                                                    *)
(***************************************************************************)
\* requests and commands the bridge holds at one time
MaxCmds == 2
\* processes spawned in one behaviour
MaxProcs == 1
\* environment faults in one behaviour: socket error or close, process exit,
\* failed write, failed heartbeat send, connection wait timeout
MaxFaults == 1

(***************************************************************************)
(* Configuration (constructor, lines 187-214).                             *)
(***************************************************************************)
\* config.options.maxRetries
maxRetries == 3
\* this.maxReconnectAttempts
maxReconnectAttempts == 5
\* config.options.maxQueueSize is 1000; the model's queue holds MaxQueue
MaxQueue == 2
\* config.options.timeout (the maximum queue age), in model ticks
MaxQueueAge == 1
\* this.autoReconnect = options.autoReconnect !== false
autoReconnect == TRUE
\* config.options.reconnectInterval, in ms
reconnectInterval == 5000
\* config.options.backoffMultiplier is 1.5 = BackoffNum / BackoffDen
BackoffNum == 3
BackoffDen == 2
\* checkHealth reports degraded above 10 pending commands; the model's
\* table holds MaxCmds, so its threshold is HealthThreshold
HealthThreshold == 1

Swarms == {1, 2}
\* a deleted Map entry: the insertion-ordered entry list keeps its place
Tomb == 0

VARIABLES
    isInitialized, isConnected, isReconnecting,
    reconnectTimer, heartbeatTimer,
    retryCount, reconnectAttempts,
    ws,
    juliaProcess, live, stdinWritable,
    initWaiters, initTimers, killTimers,
    messageQueue, pendingRequests, pendingCommands, timers, writes,
    activeSwarms, cmd, fatal, faults, stopping,
    reconnectTimers, killed

vars == << isInitialized, isConnected, isReconnecting,
           reconnectTimer, heartbeatTimer,
           retryCount, reconnectAttempts,
           ws,
           juliaProcess, live, stdinWritable,
           initWaiters, initTimers, killTimers,
           messageQueue, pendingRequests, pendingCommands, timers, writes,
           activeSwarms, cmd, fatal, faults, stopping,
           reconnectTimers, killed >>

\* no promise holds this id
Free == [ op |-> "free", kind |-> "none", swarm |-> 0, cont |-> << >>,
          out |-> << >>, runs |-> 0, sent |-> FALSE ]

\* no error thrown
NoThrow == [op |-> "none", swarm |-> 0, code |-> "none", cause |-> "none"]

\* the current bridge state as one record
Cur == [ isInitialized |-> isInitialized, isConnected |-> isConnected,
         isReconnecting |-> isReconnecting,
         reconnectTimer |-> reconnectTimer, heartbeatTimer |-> heartbeatTimer,
         retryCount |-> retryCount, reconnectAttempts |-> reconnectAttempts,
         ws |-> ws,
         juliaProcess |-> juliaProcess, live |-> live,
         stdinWritable |-> stdinWritable,
         initWaiters |-> initWaiters, initTimers |-> initTimers,
         killTimers |-> killTimers,
         messageQueue |-> messageQueue, pendingRequests |-> pendingRequests,
         pendingCommands |-> pendingCommands, timers |-> timers,
         writes |-> writes,
         activeSwarms |-> activeSwarms, cmd |-> cmd,
         fatal |-> fatal, faults |-> faults, stopping |-> stopping,
         reconnectTimers |-> reconnectTimers, killed |-> killed,
         \* the error the handler throws to its caller before any await
         thrown |-> NoThrow,
         \* promise continuations still to run in this macrotask
         micro |-> << >>,
         \* the request ids passed to ws.send by the handler, in order
         wire |-> << >>,
         \* the handler needs more ids than the model holds
         overflow |-> FALSE ]

\* the next state is b
Apply(b) ==
    /\ isInitialized' = b.isInitialized
    /\ isConnected' = b.isConnected
    /\ isReconnecting' = b.isReconnecting
    /\ reconnectTimer' = b.reconnectTimer
    /\ heartbeatTimer' = b.heartbeatTimer
    /\ retryCount' = b.retryCount
    /\ reconnectAttempts' = b.reconnectAttempts
    /\ ws' = b.ws
    /\ juliaProcess' = b.juliaProcess
    /\ live' = b.live
    /\ stdinWritable' = b.stdinWritable
    /\ initWaiters' = b.initWaiters
    /\ initTimers' = b.initTimers
    /\ killTimers' = b.killTimers
    /\ messageQueue' = b.messageQueue
    /\ pendingRequests' = b.pendingRequests
    /\ pendingCommands' = b.pendingCommands
    /\ timers' = b.timers
    /\ writes' = b.writes
    /\ activeSwarms' = b.activeSwarms
    /\ cmd' = b.cmd
    /\ fatal' = b.fatal
    /\ faults' = b.faults
    /\ stopping' = b.stopping
    /\ reconnectTimers' = b.reconnectTimers
    /\ killed' = b.killed

(***************************************************************************)
(* State after construction (field initialisers, lines 154-185).           *)
(*   ws            readyState of this.ws: none (null), connecting, open,   *)
(*                 closed                                                  *)
(*   juliaProcess  0 is null, else the process spawned last                *)
(*   live          the spawned processes that have not exited              *)
(*   initWaiters   initialize() calls suspended in waitForConnection       *)
(*   initTimers    pending setTimeout(() => this.initialize())             *)
(*   killTimers    pending kill timers of shutdown(), oldest first; each   *)
(*                 entry names the process that was current when its       *)
(*                 shutdown() ran                                          *)
(*   stopping      the processes that were asked to exit ('exit()' written *)
(*                 to stdin) or sent kill()                                *)
(*   killed        the live processes whose `killed` flag is set: kill()   *)
(*                 was called on them                                      *)
(*   reconnectTimer   the field this.reconnectTimer holds a timer handle   *)
(*   reconnectTimers  the callbacks of scheduleReconnect's setTimeout that *)
(*                 are still to run                                        *)
(*   timers        ids whose deadline timer is armed                       *)
(*   writes        ids whose stdin.write callback is still to come         *)
(*   activeSwarms  the Map's entry list in insertion order                 *)
(*   cmd           one record per promise created by sendCommand or        *)
(*                 sendMessage, indexed by its id: the operation awaiting  *)
(*                 it, every invocation of its resolve/reject (out) and    *)
(*                 how often the awaiting code was continued (runs).  The  *)
(*                 record is kept while the bridge holds the id (table     *)
(*                 entry, timer, write callback, queue item) and through   *)
(*                 the step that settles it; see Release                   *)
(*   faults        environment faults so far                               *)
(*   fatal         'Max reconnect attempts reached' has been emitted since *)
(*                 the socket last opened                                  *)
(***************************************************************************)
Init ==
    /\ isInitialized = FALSE
    /\ isConnected = FALSE
    /\ isReconnecting = FALSE
    /\ reconnectTimer = FALSE
    /\ heartbeatTimer = FALSE
    /\ retryCount = 0
    /\ reconnectAttempts = 0
    /\ ws = "none"
    /\ juliaProcess = 0
    /\ live = {}
    /\ stdinWritable = FALSE
    /\ initWaiters = 0
    /\ initTimers = 0
    /\ killTimers = << >>
    /\ messageQueue = << >>
    /\ pendingRequests = {}
    /\ pendingCommands = {}
    /\ timers = {}
    /\ writes = {}
    /\ activeSwarms = << >>
    /\ cmd = [ id \in 1..MaxCmds |-> Free ]
    /\ fatal = FALSE
    /\ faults = 0
    /\ stopping = {}
    /\ reconnectTimers = 0
    /\ killed = {}

(***************************************************************************)
(* Helpers on the Map activeSwarms (insertion-ordered entry list).         *)
(***************************************************************************)
Range(s) == { s[i] : i \in DOMAIN s }

\* activeSwarms.keys()
Keys(m) == Range(m) \ {Tomb}

\* activeSwarms.has(k)
Has(m, k) == k \in Keys(m)

\* activeSwarms.set(k, v): a present key keeps its place, a new one is appended
MapSet(m, k) == IF Has(m, k) THEN m ELSE Append(m, k)

\* activeSwarms.delete(k)
MapDelete(m, k) ==
    IF m = << >> THEN << >>
    ELSE [ i \in DOMAIN m |-> IF m[i] = k THEN Tomb ELSE m[i] ]

\* activeSwarms.clear()
MapClear(m) == IF m = << >> THEN << >> ELSE [ i \in DOMAIN m |-> Tomb ]

\* Array.from(activeSwarms.keys())
RECURSIVE KeyList(_)
KeyList(m) ==
    IF m = << >> THEN << >>
    ELSE IF Head(m) = Tomb THEN KeyList(Tail(m))
    ELSE << Head(m) >> \o KeyList(Tail(m))

\* the entry a live Map iterator standing at position pos yields next
\* (0 when the iteration is done)
NextEntry(m, pos) ==
    LET later == { i \in DOMAIN m : i >= pos /\ m[i] # Tomb }
    IN IF later = {} THEN 0 ELSE CHOOSE i \in later : \A j \in later : i <= j

(***************************************************************************)
(* Promises.  reject/resolve of the promise with id `id` is invoked with   *)
(* outcome o: the invocation is recorded, and the first one schedules the  *)
(* continuation of the operation awaiting the promise.                     *)
(***************************************************************************)
Settle(b, id, o) ==
    [ b EXCEPT !.cmd[id].out = Append(@, o),
               !.micro = IF b.cmd[id].out = << >>
                         THEN Append(@, << id, o >>) ELSE @ ]

\* the error code a public operation's catch block rethrows (lines 376-378,
\* 409-411, 448-450, 469-471, 491-493): the cause's code is replaced
Wrap(op) ==
    CASE op = "createSwarm"   -> "SWARM_CREATION_ERROR"
      [] op = "stopSwarm"     -> "SWARM_STOP_ERROR"
      [] op = "stopAll"       -> "SWARM_STOP_ERROR"
      [] op = "optimizeSwarm" -> "OPTIMIZATION_ERROR"
      [] op = "executeCode"   -> "CODE_EXECUTION_ERROR"
      [] OTHER                -> "none"

\* the environment fails: one fault more
Fault(b) == [ b EXCEPT !.faults = @ + 1 ]

\* a public operation throws before any command is sent
Throw(b, op, swarm, code, cause) ==
    [ b EXCEPT !.thrown = [op |-> op, swarm |-> swarm, code |-> code,
                           cause |-> cause] ]

(***************************************************************************)
(* handleReconnect (lines 1006-1023)                                       *)
(***************************************************************************)
\* a handleReconnect without the cap on the attempts
handleReconnectUncapped(b) ==
    [ b EXCEPT !.reconnectAttempts = @ + 1, !.initTimers = @ + 1 ]

handleReconnect(b) ==
    IF b.reconnectAttempts < maxReconnectAttempts
    THEN [ b EXCEPT !.reconnectAttempts = @ + 1, !.initTimers = @ + 1 ]
    ELSE b

(***************************************************************************)
(* sendCommand (lines 832-962), past its guard.                            *)
(*   op, swarm, cont  the operation awaiting the command                   *)
(*   data  "ok", "limit" (serializes to exactly SizeLimit characters),     *)
(*         "large" (to one more) or "cyclic" (JSON.stringify throws inside *)
(*         the promise executor)                                           *)
(*   wr    "ok", or "throw" when stdin.write throws                        *)
(***************************************************************************)
CanSend(b) == b.isInitialized /\ b.juliaProcess # 0

\* the 10MB limit of line 901, in characters of the serialized command
SizeLimit == 10 * 1024 * 1024

\* serializedData.length
Size(data) ==
    CASE data = "limit" -> SizeLimit
      [] data = "large" -> SizeLimit + 1
      [] OTHER          -> 64

NewCmd(op, kind, swarm, cont) ==
    [ op |-> op, kind |-> kind, swarm |-> swarm, cont |-> cont,
      out |-> << >>, runs |-> 0, sent |-> FALSE ]

\* uuidv4(): an id the bridge holds nothing of (0 when the model has none)
FreshId(b) ==
    LET free == { i \in DOMAIN b.cmd : b.cmd[i] = Free }
    IN IF free = {} THEN 0 ELSE CHOOSE i \in free : \A j \in free : i <= j

\* pendingCommands.delete(id); clearTimeout(commandTimeout); reject(code)
FailCommand(b, id, code) ==
    Settle([ b EXCEPT !.pendingCommands = @ \ {id}, !.timers = @ \ {id} ],
           id, code)

\* a sendCommand whose size check leaves the deadline timer armed
sendCommandLargeKeepsTimer(b, op, kind, swarm, cont, data, wr) ==
    LET id == FreshId(b)
        b1 == [ b EXCEPT !.cmd[id] = NewCmd(op, kind, swarm, cont),
                         !.timers = @ \cup {id},
                         !.pendingCommands = @ \cup {id} ]
    IN CASE id = 0 -> [ b EXCEPT !.overflow = TRUE ]
         [] data = "cyclic" -> Settle(b1, id, "STRINGIFY_THROW")
         [] data # "cyclic" /\ Size(data) > SizeLimit ->
                Settle([ b1 EXCEPT !.pendingCommands = @ \ {id} ],
                       id, "DATA_TOO_LARGE")
         [] data # "cyclic" /\ Size(data) <= SizeLimit /\ ~b.stdinWritable ->
                LET b2 == FailCommand(b1, id, "PROCESS_ERROR")
                IN IF autoReconnect /\ ~b2.isReconnecting
                   THEN handleReconnect(b2) ELSE b2
         [] data # "cyclic" /\ Size(data) <= SizeLimit /\ b.stdinWritable
                /\ wr = "throw" ->
                FailCommand(Fault(b1), id, "COMMAND_SEND_ERROR")
         [] OTHER ->
                [ b1 EXCEPT !.writes = @ \cup {id}, !.cmd[id].sent = TRUE ]

sendCommand(b, op, kind, swarm, cont, data, wr) ==
    LET id == FreshId(b)
        b1 == [ b EXCEPT !.cmd[id] = NewCmd(op, kind, swarm, cont),
                         !.timers = @ \cup {id},
                         !.pendingCommands = @ \cup {id} ]
    IN CASE id = 0 -> [ b EXCEPT !.overflow = TRUE ]
         [] data = "cyclic" -> Settle(b1, id, "STRINGIFY_THROW")
         [] data # "cyclic" /\ Size(data) > SizeLimit ->
                FailCommand(b1, id, "DATA_TOO_LARGE")
         [] data # "cyclic" /\ Size(data) <= SizeLimit /\ ~b.stdinWritable ->
                LET b2 == FailCommand(b1, id, "PROCESS_ERROR")
                IN IF autoReconnect /\ ~b2.isReconnecting
                   THEN handleReconnect(b2) ELSE b2
         [] data # "cyclic" /\ Size(data) <= SizeLimit /\ b.stdinWritable
                /\ wr = "throw" ->
                FailCommand(Fault(b1), id, "COMMAND_SEND_ERROR")
         [] OTHER ->
                [ b1 EXCEPT !.writes = @ \cup {id}, !.cmd[id].sent = TRUE ]

(***************************************************************************)
(* shutdown (lines 312-353).  shutdownLoop is the loop over                *)
(* activeSwarms.keys() from iterator position pos on, up to the next await *)
(* or, when the iteration is done, to the end of shutdown.                 *)
(***************************************************************************)
RECURSIVE RejectAll(_, _)
RejectAll(b, ids) ==
    IF ids = {} THEN b
    ELSE LET id == CHOOSE i \in ids : \A j \in ids : i <= j
         IN RejectAll(Settle([ b EXCEPT !.timers = @ \ {id} ],
                             id, "BRIDGE_SHUTDOWN"),
                      ids \ {id})

\* a shutdown that leaves the bridge initialized
shutdownEndStaysInitialized(b) ==
    [ b EXCEPT !.activeSwarms = MapClear(@),
               !.stopping = @ \cup ({b.juliaProcess} \cap b.live),
               !.killTimers = Append(@, b.juliaProcess) ]

shutdownEnd(b) ==
    [ b EXCEPT !.activeSwarms = MapClear(@),
               !.stopping = @ \cup ({b.juliaProcess} \cap b.live),
               !.killTimers = Append(@, b.juliaProcess),
               !.isInitialized = FALSE ]

shutdownLoop(b, pos, wr) ==
    LET p == NextEntry(b.activeSwarms, pos)
    IN IF p = 0 \/ ~CanSend(b)
       \* no entry left, or every remaining stopSwarm throws NOT_INITIALIZED
       THEN shutdownEnd(b)
       ELSE sendCommand(b, "shutdown", "stop_swarm", b.activeSwarms[p],
                        << p >>, "ok", wr)

shutdown(b, wr) ==
    IF ~b.isInitialized THEN b
    ELSE shutdownLoop(
           [ RejectAll(b, b.pendingCommands) EXCEPT !.pendingCommands = {} ],
           1, wr)

(***************************************************************************)
(* The code after an await.  Resume runs the continuation of the operation *)
(* awaiting promise id, settled with outcome o ("resolved" or an error     *)
(* code), up to its next await or its end.                                 *)
(*   createSwarm (createSwarmThen), stopSwarm (397-398, 405-406), the loop *)
(*   of shutdown (326-332); every other catch block only rethrows.         *)
(***************************************************************************)
\* a createSwarm that registers the session whatever the command's outcome
createSwarmThenAlways(b, s, o) == [ b EXCEPT !.activeSwarms = MapSet(@, s) ]

\* createSwarm after its await (lines 369-378): registers the session when
\* the start_swarm command resolved, rethrows when it failed
createSwarmThen(b, s, o) ==
    IF o = "resolved" THEN [ b EXCEPT !.activeSwarms = MapSet(@, s) ] ELSE b

Resume(b0, id, o, wr) ==
    LET c == b0.cmd[id]
        b == [ b0 EXCEPT !.cmd[id].runs = @ + 1 ]
        deleted == [ b EXCEPT !.activeSwarms = MapDelete(@, c.swarm) ]
    IN CASE c.op = "createSwarm" -> createSwarmThen(b, c.swarm, o)
         [] c.op = "stopSwarm" ->
              IF o = "resolved" THEN deleted ELSE b
         [] c.op = "stopAll" ->
              IF o # "resolved" THEN b
              ELSE IF c.cont = << >> THEN deleted
              ELSE IF ~CanSend(deleted)
              THEN Throw(deleted, "stopAll", Head(c.cont),
                         "SWARM_STOP_ERROR", "NOT_INITIALIZED")
              ELSE sendCommand(deleted, "stopAll", "stop_swarm",
                               Head(c.cont), Tail(c.cont), "ok", wr)
         [] c.op = "shutdown" ->
              shutdownLoop(IF o = "resolved" THEN deleted ELSE b,
                           c.cont[1] + 1, wr)
         [] OTHER -> b

\* run the microtask queue to its end
RECURSIVE Drain(_, _)
Drain(b, wr) ==
    IF b.micro = << >> THEN b
    ELSE LET h == Head(b.micro)
         IN Drain(Resume([ b EXCEPT !.micro = Tail(@) ], h[1], h[2], wr), wr)

(***************************************************************************)
(* Public operations.                                                      *)
(***************************************************************************)
\* createSwarm (lines 358-379); s is config.id, or the uuid drawn for it
createSwarm(b, s, data, wr) ==
    IF ~b.isInitialized
    THEN Throw(b, "createSwarm", s, "NOT_INITIALIZED", "NOT_INITIALIZED")
    ELSE IF ~CanSend(b)
    THEN Throw(b, "createSwarm", s, Wrap("createSwarm"), "NOT_INITIALIZED")
    ELSE sendCommand(b, "createSwarm", "start_swarm", s, << >>, data, wr)

\* stopSwarm(swarmId) (lines 384-398, 409-411)
stopSwarm(b, s, wr) ==
    IF ~b.isInitialized
    THEN Throw(b, "stopSwarm", s, "NOT_INITIALIZED", "NOT_INITIALIZED")
    ELSE IF ~Has(b.activeSwarms, s)
    THEN Throw(b, "stopSwarm", s, Wrap("stopSwarm"), "SWARM_NOT_FOUND")
    ELSE IF ~CanSend(b)
    THEN Throw(b, "stopSwarm", s, Wrap("stopSwarm"), "NOT_INITIALIZED")
    ELSE sendCommand(b, "stopSwarm", "stop_swarm", s, << >>, "ok", wr)

\* stopSwarm() (lines 384-389, 399-411)
stopAll(b, wr) ==
    LET swarmIds == KeyList(b.activeSwarms)
    IN IF ~b.isInitialized
       THEN Throw(b, "stopAll", 0, "NOT_INITIALIZED", "NOT_INITIALIZED")
       ELSE IF swarmIds = << >> THEN b
       ELSE IF ~CanSend(b)
       THEN Throw(b, "stopAll", Head(swarmIds), Wrap("stopAll"),
                  "NOT_INITIALIZED")
       ELSE sendCommand(b, "stopAll", "stop_swarm", Head(swarmIds),
                        Tail(swarmIds), "ok", wr)

\* optimizeSwarm (lines 417-451)
optimizeSwarm(b, s, data, wr) ==
    IF ~b.isInitialized
    THEN Throw(b, "optimizeSwarm", s, "NOT_INITIALIZED", "NOT_INITIALIZED")
    ELSE IF ~Has(b.activeSwarms, s)
    THEN Throw(b, "optimizeSwarm", s, Wrap("optimizeSwarm"),
               "SWARM_NOT_FOUND")
    ELSE IF ~CanSend(b)
    THEN Throw(b, "optimizeSwarm", s, Wrap("optimizeSwarm"),
               "NOT_INITIALIZED")
    ELSE sendCommand(b, "optimizeSwarm", "optimize_swarm", s, << >>,
                     data, wr)

\* executeCode (lines 484-494)
executeCode(b, data, wr) ==
    IF ~b.isInitialized
    THEN Throw(b, "executeCode", 0, "NOT_INITIALIZED", "NOT_INITIALIZED")
    ELSE IF ~CanSend(b)
    THEN Throw(b, "executeCode", 0, Wrap("executeCode"), "NOT_INITIALIZED")
    ELSE sendCommand(b, "executeCode", "execute_code", 0, << >>, data, wr)

\* checkHealth (lines 967-1001): the status it reports
processRunning(b) ==
    b.juliaProcess # 0 /\ b.juliaProcess \in b.live
        /\ b.juliaProcess \notin b.killed

checkHealth(b) ==
    IF ~processRunning(b) \/ ~b.isInitialized THEN "unhealthy"
    ELSE IF b.reconnectAttempts > 0
            \/ Cardinality(b.pendingCommands) > HealthThreshold
    THEN "degraded"
    ELSE "healthy"

\* the error code with which a public operation rejects after its command
\* was settled with outcome o: every catch block but the one inside the
\* loop of shutdown replaces the cause's code by its own
Rejection(op, o) ==
    IF o = "resolved" \/ op = "shutdown" THEN "none" ELSE Wrap(op)

(***************************************************************************)
(* Timers and callbacks of one command.                                    *)
(***************************************************************************)
\* a commandTimeout that empties the table instead of deleting its entry
commandTimeoutClearsAll(b, id) ==
    LET b1 == [ b EXCEPT !.timers = @ \ {id} ]
    IN IF id \in b.pendingCommands
       THEN Settle([ b1 EXCEPT !.pendingCommands = {} ],
                   id, "COMMAND_TIMEOUT")
       ELSE b1

\* commandTimeout of sendCommand (lines 841-846)
commandTimeout(b, id) ==
    LET b1 == [ b EXCEPT !.timers = @ \ {id} ]
    IN IF id \in b.pendingCommands
       THEN Settle([ b1 EXCEPT !.pendingCommands = @ \ {id} ],
                   id, "COMMAND_TIMEOUT")
       ELSE b1

\* the timeout of sendMessage (lines 771-774)
requestTimeout(b, id) ==
    Settle([ b EXCEPT !.timers = @ \ {id}, !.pendingRequests = @ \ {id} ],
           id, "REQUEST_TIMEOUT")

\* the callback of stdin.write (lines 933-944)
writeCallback(b, id, error) ==
    LET b1 == [ b EXCEPT !.writes = @ \ {id} ]
    IN IF ~error THEN b1
       ELSE LET b2 == FailCommand(b1, id, "WRITE_ERROR")
            IN IF autoReconnect /\ ~b2.isReconnecting
               THEN handleReconnect(b2) ELSE b2

(***************************************************************************)
(* The socket's message handler (lines 519-553).                           *)
(*   m.type  "heartbeat", "response" or "malformed" (JSON.parse throws)    *)
(***************************************************************************)
handleHeartbeat(b) == b

\* a message handler that reads the id out of a payload it cannot parse
onMessageSettlesMalformed(b, m) ==
    CASE m.type = "heartbeat" -> handleHeartbeat(b)
      [] OTHER ->
           IF m.id \in b.pendingRequests
           THEN Settle([ b EXCEPT !.timers = @ \ {m.id},
                                  !.pendingRequests = @ \ {m.id} ],
                       m.id, IF m.error THEN "REMOTE_ERROR" ELSE "resolved")
           ELSE b

\* the message handler without its clearTimeout (line 536)
onMessageKeepsTimer(b, m) ==
    CASE m.type = "malformed" -> b
      [] m.type = "heartbeat" -> handleHeartbeat(b)
      [] OTHER ->
           IF m.id \in b.pendingRequests
           THEN Settle([ b EXCEPT !.pendingRequests = @ \ {m.id} ],
                       m.id, IF m.error THEN "REMOTE_ERROR" ELSE "resolved")
           ELSE b

onMessage(b, m) ==
    CASE m.type = "malformed" -> b
      [] m.type = "heartbeat" -> handleHeartbeat(b)
      [] OTHER ->
           IF m.id \in b.pendingRequests
           THEN Settle([ b EXCEPT !.timers = @ \ {m.id},
                                  !.pendingRequests = @ \ {m.id} ],
                       m.id, IF m.error THEN "REMOTE_ERROR" ELSE "resolved")
           ELSE b

Messages ==
    [ type : {"heartbeat", "malformed"}, id : {0}, error : {FALSE} ]
    \* id 0: an id the bridge holds nothing of (unknown, or settled before)
    \cup [ type : {"response"}, id : 0..MaxCmds, error : BOOLEAN ]

(***************************************************************************)
(* Connection management.                                                  *)
(***************************************************************************)
\* scheduleReconnect (lines 587-596): arms the reconnect timer
\* a scheduleReconnect that arms a timer whatever is pending
scheduleReconnectUnguarded(b) ==
    [ b EXCEPT !.isReconnecting = TRUE, !.reconnectTimer = TRUE,
               !.reconnectTimers = @ + 1 ]

scheduleReconnect(b) ==
    IF b.isReconnecting \/ b.reconnectTimer THEN b
    ELSE [ b EXCEPT !.isReconnecting = TRUE, !.reconnectTimer = TRUE,
                    !.reconnectTimers = @ + 1 ]

\* n to the power k
RECURSIVE Pow(_, _)
Pow(n, k) == IF k = 0 THEN 1 ELSE n * Pow(n, k - 1)

\* calculateBackoffDelay (lines 614-618): the delay in ms is num / den
calculateBackoffDelay(b) ==
    [ num |-> reconnectInterval * Pow(BackoffNum, b.retryCount),
      den |-> Pow(BackoffDen, b.retryCount) ]

\* a handleDisconnect that also empties the session registry
handleDisconnectClearsRegistry(b) ==
    IF ~b.isConnected THEN b
    ELSE scheduleReconnect([ b EXCEPT !.isConnected = FALSE,
                                      !.activeSwarms = MapClear(@) ])

\* handleDisconnect (lines 572-582)
handleDisconnect(b) ==
    IF ~b.isConnected THEN b
    ELSE scheduleReconnect([ b EXCEPT !.isConnected = FALSE ])

\* the catch block of initialize (lines 285-306), run once for an
\* initialize() whose waitForConnection was rejected
initializeCatch(b) ==
    IF autoReconnect /\ b.reconnectAttempts < maxReconnectAttempts
    \* a retry is scheduled and the initialize() call resolves
    THEN [ b EXCEPT !.reconnectAttempts = @ + 1, !.initTimers = @ + 1 ]
    ELSE Throw(b, "initialize", 0, "INITIALIZATION_FAILED",
               "CONNECTION_FAILED")

RECURSIVE Times(_, _)
Times(n, b) == IF n = 0 THEN b ELSE Times(n - 1, initializeCatch(b))

\* emit('error', ...): the onError listener of every waitForConnection
\* (lines 702-709) rejects, and each rejected initialize() runs its catch
emitError(b) == Times(b.initWaiters, [ b EXCEPT !.initWaiters = 0 ])

\* handleError (lines 669-678)
handleError(b) ==
    LET b1 == emitError(b)
    IN IF b1.isConnected THEN handleDisconnect(b1) ELSE b1

\* connectWebSocket (lines 499-505): a socket that is open or connecting
\* is kept, any other is replaced by a new one
connectWebSocket(b) ==
    IF b.ws \in {"open", "connecting"} THEN b
    ELSE [ b EXCEPT !.ws = "connecting" ]

\* the reconnect timer's callback (lines 597-608)
reconnectTimeout(b) ==
    LET b1 == [ b EXCEPT !.reconnectTimer = FALSE,
                         !.reconnectTimers = @ - 1,
                         !.isReconnecting = FALSE,
                         !.retryCount = @ + 1 ]
    IN IF b1.retryCount > maxRetries
       THEN emitError([ b1 EXCEPT !.fatal = TRUE ])
       ELSE connectWebSocket(b1)

\* sendHeartbeat (lines 641-657); hb = "throw" when ws.send throws
sendHeartbeat(b, hb) ==
    IF ~b.isConnected \/ b.ws = "none" THEN b
    ELSE IF hb = "throw" THEN handleDisconnect(Fault(b))
    ELSE b

\* startHeartbeat (lines 623-636)
startHeartbeat(b, hb) ==
    sendHeartbeat([ b EXCEPT !.heartbeatTimer = TRUE ], hb)

(***************************************************************************)
(* sendMessage (lines 743-799) and the Outbound Queue.                     *)
(*   data  "ok", or "cyclic" when serializing or sending the message       *)
(*         throws inside the promise executor                              *)
(* A queued caller keeps its record in cmd; the request id drawn when its  *)
(* message is sent after the flush is identified with it.                  *)
(***************************************************************************)
\* the connected branch (lines 761-799), artificialDelay being 0
transmit(b, id, data) ==
    LET b1 == [ b EXCEPT !.timers = @ \cup {id},
                         !.pendingRequests = @ \cup {id} ]
    IN IF data = "cyclic" THEN Settle(b1, id, "SEND_THROW")
       ELSE [ b1 EXCEPT !.cmd[id].sent = TRUE, !.wire = Append(@, id) ]

\* a sendMessage that queues without looking at the queue's length
sendMessageUnbounded(b, data) ==
    LET id == FreshId(b)
        b1 == [ b EXCEPT !.cmd[id] = NewCmd("sendMessage", "message",
                                            0, << >>) ]
    IN IF id = 0 THEN [ b EXCEPT !.overflow = TRUE ]
       ELSE IF ~b.isConnected
       THEN [ b1 EXCEPT !.messageQueue =
                  Append(@, [id |-> id, age |-> 0, data |-> data]) ]
       ELSE transmit(b1, id, data)

sendMessage(b, data) ==
    LET id == FreshId(b)
        b1 == [ b EXCEPT !.cmd[id] = NewCmd("sendMessage", "message",
                                            0, << >>) ]
    IN IF ~b.isConnected /\ Len(b.messageQueue) >= MaxQueue
       \* rejected at once: the promise of the queue branch has no id
       THEN Throw(b, "sendMessage", 0, "QUEUE_FULL", "QUEUE_FULL")
       ELSE IF id = 0 THEN [ b EXCEPT !.overflow = TRUE ]
       ELSE IF ~b.isConnected
       THEN [ b1 EXCEPT !.messageQueue =
                  Append(@, [id |-> id, age |-> 0, data |-> data]) ]
       ELSE transmit(b1, id, data)

\* now - item.timestamp > maxQueueAge
Expired(item) == item.age > MaxQueueAge

RECURSIVE FlushFrom(_, _)
\* a flush that sends the expired items too
FlushFromSendsExpired(b, q) ==
    IF q = << >> THEN b
    ELSE FlushFrom(transmit(b, Head(q).id, Head(q).data), Tail(q))

FlushFrom(b, q) ==
    IF q = << >> THEN b
    ELSE LET item == Head(q)
         IN FlushFrom(IF Expired(item)
                      THEN Settle(b, item.id, "MESSAGE_EXPIRED")
                      ELSE transmit(b, item.id, item.data),
                      Tail(q))

\* processQueuedMessages (lines 716-738).  Rejecting the expired items
\* and sending the others touch disjoint records, so one pass in queue
\* order does both.
\* a flush that sends the queue but does not empty it
processQueuedMessagesKeepsQueue(b) == FlushFrom(b, b.messageQueue)

processQueuedMessages(b) ==
    IF ~b.isConnected
    \* sendMessage queues every surviving item again, stamped anew
    THEN FlushFrom([ b EXCEPT !.messageQueue =
                         [ k \in DOMAIN SelectSeq(@, LAMBDA i : ~Expired(i))
                             |-> [ SelectSeq(@, LAMBDA i : ~Expired(i))[k]
                                     EXCEPT !.age = 0 ] ] ],
                   SelectSeq(b.messageQueue, Expired))
    ELSE FlushFrom([ b EXCEPT !.messageQueue = << >> ], b.messageQueue)

(***************************************************************************)
(* The socket's open handler (lines 507-517).  emit('connected') resolves  *)
(* every waitForConnection; the initialize() calls awaiting them continue  *)
(* (lines 280-284) once the handler has returned.                          *)
(***************************************************************************)
\* an open handler that does not flush the queue
onOpenKeepsQueue(b, hb) ==
    LET n  == b.initWaiters
        b1 == [ b EXCEPT !.isConnected = TRUE, !.retryCount = 0,
                         !.initWaiters = 0, !.fatal = FALSE ]
        b2 == startHeartbeat(b1, hb)
    IN IF n > 0
       THEN [ b2 EXCEPT !.isInitialized = TRUE, !.reconnectAttempts = 0 ]
       ELSE b2

onOpen(b, hb) ==
    LET n  == b.initWaiters
        b1 == [ b EXCEPT !.isConnected = TRUE, !.retryCount = 0,
                         !.initWaiters = 0, !.fatal = FALSE ]
        b2 == startHeartbeat(processQueuedMessages(b1), hb)
    IN IF n > 0
       THEN [ b2 EXCEPT !.isInitialized = TRUE, !.reconnectAttempts = 0 ]
       ELSE b2

(***************************************************************************)
(* initialize (lines 219-284): spawns a process, registers its handlers    *)
(* and awaits waitForConnection (lines 683-711).                           *)
(***************************************************************************)
\* an initialize that does not look at isInitialized
initializeUnguarded(b) ==
    LET p  == b.juliaProcess + 1
        b1 == [ b EXCEPT !.juliaProcess = p,
                         !.live = @ \cup {p},
                         !.stdinWritable = TRUE ]
    IN IF b1.isConnected
       THEN [ b1 EXCEPT !.isInitialized = TRUE, !.reconnectAttempts = 0 ]
       ELSE [ b1 EXCEPT !.initWaiters = @ + 1 ]

initialize(b) ==
    IF b.isInitialized THEN b
    ELSE LET p  == b.juliaProcess + 1
             b1 == [ b EXCEPT !.juliaProcess = p,
                              !.live = @ \cup {p},
                              !.stdinWritable = TRUE ]
         IN IF b1.isConnected
            THEN [ b1 EXCEPT !.isInitialized = TRUE, !.reconnectAttempts = 0 ]
            ELSE [ b1 EXCEPT !.initWaiters = @ + 1 ]

\* the timeout of waitForConnection (lines 690-694) rejects one waiter
waitTimeout(b) == initializeCatch([ b EXCEPT !.initWaiters = @ - 1 ])

\* the retry timer of initialize / handleReconnect (lines 295-299, 1014-1018)
initTimeout(b) == initialize([ b EXCEPT !.initTimers = @ - 1 ])

\* the 'exit' handler of a process (lines 272-275)
onExit(b, p) ==
    handleDisconnect([ b EXCEPT !.live = @ \ {p},
                                !.stopping = @ \ {p},
                                !.killed = @ \ {p},
                                !.stdinWritable =
                                    IF p = b.juliaProcess THEN FALSE ELSE @ ])

\* the kill timer of shutdown (lines 341-345): kill() on the process that
\* is current when the timer fires; a process that has exited ignores it,
\* a live one then exits (ProcExit)
killTimeout(b) ==
    [ b EXCEPT !.killTimers = Tail(@),
               !.stopping = @ \cup ({b.juliaProcess} \cap b.live),
               !.killed = @ \cup ({b.juliaProcess} \cap b.live) ]

(***************************************************************************)
(* Actions: one per public operation, event handler and timer callback.    *)
(***************************************************************************)
Outcomes == {"ok", "throw"}

InBounds(b) ==
    /\ ~b.overflow
    /\ b.faults <= MaxFaults
    /\ b.juliaProcess <= MaxProcs

\* an id is held while a table entry, a timer, a write callback or a queue
\* item refers to it
Held(b) ==
    b.pendingCommands \cup b.pendingRequests \cup b.timers \cup b.writes
        \cup { b.messageQueue[i].id : i \in DOMAIN b.messageQueue }

\* the records of settled promises whose id is no longer held are dropped:
\* nothing in the bridge can refer to them again
Release(b) ==
    [ b EXCEPT !.cmd = [ id \in DOMAIN @ |->
                           IF @[id].out # << >> /\ id \notin Held(b)
                           THEN Free ELSE @[id] ] ]

\* the state a handler starts from
Now == Release(Cur)

\* run handler result b to the end of its macrotask and take the step
Step(b, wr) ==
    LET e == Drain(b, wr)
    IN InBounds(e) /\ Apply(e)

Initialize == Step(initialize(Now), "ok")

InitTimeout == initTimers > 0 /\ Step(initTimeout(Now), "ok")

WaitTimeout == initWaiters > 0 /\ Step(waitTimeout(Fault(Now)), "ok")

\* a process prints 'Server started' (lines 253-257)
ProcReady == \E p \in live : Step(connectWebSocket(Now), "ok")

\* a process exits: on its own (a fault), or because it was asked to
ProcExit ==
    \E p \in live :
        Step(onExit(IF p \in stopping THEN Now ELSE Fault(Now), p), "ok")

KillTimeout == killTimers # << >> /\ Step(killTimeout(Now), "ok")

WsOpen ==
    /\ ws = "connecting"
    /\ live # {}
    /\ \E hb \in Outcomes : Step(onOpen([ Now EXCEPT !.ws = "open" ], hb), "ok")

\* the socket's 'error' event (lines 555-558) and the 'close' event
\* (lines 560-562) that the socket emits right after it
WsError ==
    /\ ws \in {"connecting", "open"}
    /\ Step(handleDisconnect(handleError([ Fault(Now) EXCEPT !.ws = "closed" ])),
            "ok")

\* the socket's 'close' event (lines 560-562) with no error before it
WsClose ==
    /\ ws = "open"
    /\ Step(handleDisconnect([ Fault(Now) EXCEPT !.ws = "closed" ]), "ok")

ReconnectTimeout == reconnectTimers > 0 /\ Step(reconnectTimeout(Now), "ok")

\* the heartbeat interval's callback (lines 630-632)
HeartbeatTick ==
    /\ heartbeatTimer
    /\ \E hb \in Outcomes : Step(sendHeartbeat(Now, hb), "ok")

OnMessage ==
    /\ ws = "open"
    /\ \E m \in Messages : Step(onMessage(Now, m), "ok")

Shutdown == \E wr \in Outcomes : Step(shutdown(Now, wr), wr)

CreateSwarm ==
    \E s \in Swarms, data \in {"ok", "limit", "large", "cyclic"},
       wr \in Outcomes :
        Step(createSwarm(Now, s, data, wr), wr)

StopSwarm == \E s \in Swarms, wr \in Outcomes : Step(stopSwarm(Now, s, wr), wr)

StopAll == \E wr \in Outcomes : Step(stopAll(Now, wr), wr)

OptimizeSwarm ==
    \E s \in Swarms, data \in {"ok", "large"}, wr \in Outcomes :
        Step(optimizeSwarm(Now, s, data, wr), wr)

ExecuteCode ==
    \E data \in {"ok", "limit", "large"}, wr \in Outcomes :
        Step(executeCode(Now, data, wr), wr)

\* checkHealth() reads the state and changes nothing
CheckHealth ==
    /\ checkHealth(Now) \in {"healthy", "degraded", "unhealthy"}
    /\ Step(Now, "ok")

SendMessage == \E data \in {"ok", "cyclic"} : Step(sendMessage(Now, data), "ok")

CommandTimeout ==
    \E id \in timers, wr \in Outcomes :
        /\ cmd[id].kind # "message"
        /\ Step(commandTimeout(Now, id), wr)

RequestTimeout ==
    \E id \in timers :
        /\ cmd[id].kind = "message"
        /\ Step(requestTimeout(Now, id), "ok")

WriteCallback ==
    \E id \in writes, error \in BOOLEAN, wr \in Outcomes :
        Step(writeCallback(IF error THEN Fault(Now) ELSE Now, id, error), wr)

\* time passes: every queued item grows older
tick(b) ==
    [ b EXCEPT !.messageQueue =
          [ i \in DOMAIN @ |-> [ @[i] EXCEPT !.age = @ + 1 ] ] ]

Tick ==
    /\ \E i \in DOMAIN messageQueue : ~Expired(messageQueue[i])
    /\ Step(tick(Now), "ok")

Next ==
    \/ Initialize \/ InitTimeout \/ WaitTimeout
    \/ ProcReady \/ ProcExit \/ KillTimeout
    \/ WsOpen \/ WsError \/ WsClose
    \/ ReconnectTimeout \/ HeartbeatTick \/ OnMessage
    \/ Shutdown \/ CreateSwarm \/ StopSwarm \/ StopAll
    \/ OptimizeSwarm \/ ExecuteCode \/ SendMessage \/ CheckHealth
    \/ CommandTimeout \/ RequestTimeout \/ WriteCallback
    \/ Tick

Spec == Init /\ [][Next]_vars

(***************************************************************************)
(* Timers fire: a pending setTimeout callback, a pending write callback    *)
(* and the clock are not postponed forever.                                *)
(***************************************************************************)
FairSpec ==
    /\ Spec
    /\ WF_vars(CommandTimeout) /\ WF_vars(RequestTimeout)
    /\ WF_vars(ReconnectTimeout) /\ WF_vars(InitTimeout)
    /\ WF_vars(WaitTimeout) /\ WF_vars(KillTimeout)
    /\ WF_vars(WriteCallback) /\ WF_vars(Tick)

(***************************************************************************)
(* Properties.                                                             *)
(***************************************************************************)
\* the caller of promise id is still waiting
Waiting(id) == cmd[id].op # "free" /\ cmd[id].out = << >>

\* a response envelope carrying id
Response(id, error) == [ type |-> "response", id |-> id, error |-> error ]

ResponseOutcomes == {"resolved", "REMOTE_ERROR"}
TimeoutOutcomes == {"COMMAND_TIMEOUT", "REQUEST_TIMEOUT"}
FailureOutcomes ==
    {"COMMAND_TIMEOUT", "WRITE_ERROR", "BRIDGE_SHUTDOWN", "DATA_TOO_LARGE",
     "PROCESS_ERROR", "COMMAND_SEND_ERROR", "STRINGIFY_THROW", "REMOTE_ERROR"}

\* C1: the code awaiting a command or request is continued at most once,
\* whichever of response, deadline timer, write callback and shutdown invoke
\* its resolve/reject, and no request id is settled both by a response and
\* by a timeout; for pendingRequests and for pendingCommands.
C1_AtMostOneOutcome ==
    \A id \in DOMAIN cmd :
        /\ cmd[id].runs <= 1
        /\ ~ \E i, j \in DOMAIN cmd[id].out :
               /\ cmd[id].out[i] \in ResponseOutcomes
               /\ cmd[id].out[j] \in TimeoutOutcomes

\* two settlement paths have invoked the reject of one command
C1_Witness ==
    \E id \in DOMAIN cmd : Len(cmd[id].out) = 2 /\ cmd[id].runs = 1

\* C2: while the socket is open, a response envelope carrying the id of a
\* pending command (sendCommand) or request (sendMessage) whose deadline has
\* not passed settles the caller of that id, resolved or failed as the
\* envelope says, and settles no other caller.
C2_ResponseSettlesCaller ==
    ws = "open" =>
        \A id \in (pendingCommands \cup pendingRequests) \cap timers,
           error \in BOOLEAN :
            Waiting(id) =>
                LET e == Drain(onMessage(Now, Response(id, error)), "ok")
                IN /\ e.cmd[id].out =
                          << IF error THEN "REMOTE_ERROR" ELSE "resolved" >>
                   /\ e.cmd[id].runs = 1
                   /\ \A j \in DOMAIN cmd \ {id} : e.cmd[j] = Now.cmd[j]

\* a command sent by a public operation awaits its response on an open socket
C2_Witness ==
    /\ ws = "open"
    /\ \E id \in pendingCommands \cap timers : Waiting(id) /\ cmd[id].sent

\* C3: when the deadline timer of a waiting command or request fires, its
\* entry is removed and its caller fails with the timeout error; every other
\* pending entry, its timer and its caller are as before; a response with
\* that id arriving afterwards changes nothing.
C3_TimeoutCancelsOnlyItsCommand ==
    \A id \in timers :
        Waiting(id) =>
            LET msg == cmd[id].kind = "message"
                e == Drain(IF msg THEN requestTimeout(Now, id)
                                  ELSE commandTimeout(Now, id), "ok")
                others == (pendingCommands \cup pendingRequests) \ {id}
            IN /\ id \notin e.pendingCommands \cup e.pendingRequests
               /\ e.cmd[id].out =
                      << IF msg THEN "REQUEST_TIMEOUT" ELSE "COMMAND_TIMEOUT" >>
               /\ e.cmd[id].runs = 1
               /\ \A j \in others :
                      /\ j \in e.pendingCommands <=> j \in pendingCommands
                      /\ j \in e.pendingRequests <=> j \in pendingRequests
                      /\ j \in e.timers <=> j \in timers
                      /\ e.cmd[j] = Now.cmd[j]
               /\ \A error \in BOOLEAN :
                      Drain(onMessage(e, Response(id, error)), "ok") = e

\* a command has timed out while another one is still pending with its timer
C3_Witness ==
    \E id, j \in DOMAIN cmd :
        /\ id # j
        /\ cmd[id].out = << "COMMAND_TIMEOUT" >>
        /\ id \notin pendingCommands \cup timers
        /\ j \in pendingCommands \cap timers
        /\ Waiting(j)

\* an armed timer whose callback the model's bounds keep from running
Cut ==
    \/ initTimers > 0 /\ ~ENABLED InitTimeout
    \/ initWaiters > 0 /\ ~ENABLED WaitTimeout
    \/ reconnectTimer /\ ~ENABLED ReconnectTimeout
    \/ timers # {} /\ ~ENABLED (CommandTimeout \/ RequestTimeout)

\* C4: under fair timers every caller that waits for a command or request,
\* a queued one included, is eventually resolved or failed (as far as the
\* model's bounds let the timers run).
C4_EveryCommandSettles ==
    \A id \in 1..MaxCmds : Waiting(id) ~> (~Waiting(id) \/ Cut)

\* C5: when the process answers a pending start_swarm command, createSwarm
\* returns and the session is Active (the first step of the session
\* lifecycle scenario).
C5_AnsweredStartIsActive ==
    ws = "open" =>
        \A id \in pendingCommands \cap timers :
            Waiting(id) /\ cmd[id].kind = "start_swarm" =>
                Has(Drain(onMessage(Now, Response(id, FALSE)), "ok").activeSwarms,
                    cmd[id].swarm)

\* C6: a session enters the registry only in the step in which the
\* start_swarm command of a createSwarm for it resolves; the continuation of
\* createSwarm inserts exactly its session when the command resolved, and
\* leaves the registry unchanged when it failed.
C6_RegistryOnlyAfterStart ==
    /\ [](\A id \in pendingCommands :
            Waiting(id) /\ cmd[id].op = "createSwarm" =>
                /\ Keys(Resume(Now, id, "resolved", "ok").activeSwarms)
                       = Keys(activeSwarms) \cup {cmd[id].swarm}
                /\ \A o \in FailureOutcomes :
                       Resume(Now, id, o, "ok").activeSwarms = activeSwarms)
    /\ [][ /\ \A s \in Swarms :
               Has(activeSwarms', s) /\ ~Has(activeSwarms, s) =>
                   \E id \in pendingCommands :
                       /\ Waiting(id)
                       /\ cmd[id].op = "createSwarm" /\ cmd[id].swarm = s
                       /\ cmd'[id].out = << "resolved" >>
           /\ \A id \in pendingCommands :
               ( /\ Waiting(id) /\ cmd[id].op = "createSwarm"
                 /\ cmd'[id].out # << >>
                 /\ Head(cmd'[id].out) # "resolved" )
               => activeSwarms' = activeSwarms ]_vars

\* a createSwarm has failed and its session is not in the registry
C6_Witness ==
    \E id \in DOMAIN cmd :
        /\ cmd[id].op = "createSwarm" /\ cmd[id].runs = 1
        /\ Head(cmd[id].out) \in FailureOutcomes
        /\ ~Has(activeSwarms, cmd[id].swarm)

\* C7: on an initialized bridge, optimizeSwarm for a session that is not in
\* the registry fails with SWARM_NOT_FOUND, sends no command, creates no
\* pending entry and leaves the registry unchanged.
C7_OptimizeUnknownSession ==
    isInitialized =>
        \A s \in Swarms :
            ~Has(activeSwarms, s) =>
                LET e == Drain(optimizeSwarm(Now, s, "ok", "ok"), "ok")
                IN /\ e.thrown.code = "SWARM_NOT_FOUND"
                   /\ e.pendingCommands = pendingCommands
                   /\ e.pendingRequests = pendingRequests
                   /\ e.writes = writes
                   /\ e.activeSwarms = activeSwarms

\* C8: on an initialized bridge, stopSwarm(s) for a session that is not in
\* the registry fails with SWARM_NOT_FOUND and sends no command; the
\* continuation of a stopSwarm(s) removes exactly s when its stop_swarm
\* command resolved and leaves the registry unchanged when it failed.
C8_StopSwarmById ==
    /\ isInitialized =>
          \A s \in Swarms :
              ~Has(activeSwarms, s) =>
                  LET e == Drain(stopSwarm(Now, s, "ok"), "ok")
                  IN /\ e.thrown.code = "SWARM_NOT_FOUND"
                     /\ e.pendingCommands = pendingCommands
                     /\ e.writes = writes
    /\ \A id \in pendingCommands :
          Waiting(id) /\ cmd[id].op = "stopSwarm" =>
              /\ Keys(Resume(Now, id, "resolved", "ok").activeSwarms)
                     = Keys(activeSwarms) \ {cmd[id].swarm}
              /\ \A o \in FailureOutcomes :
                     Resume(Now, id, o, "ok").activeSwarms = activeSwarms

\* the bridge had the message handler resolved pending command id
Resolved(b, id) ==
    Drain(Settle([ b EXCEPT !.pendingCommands = @ \ {id},
                            !.timers = @ \ {id} ],
                 id, "resolved"), "ok")

RECURSIVE ResolvedAll(_, _)
ResolvedAll(b, ids) ==
    IF ids = {} THEN b
    ELSE LET id == CHOOSE i \in ids : \A j \in ids : i <= j
         IN ResolvedAll(Resolved(b, id), ids \ {id})

\* the stop_swarm commands of a stopSwarm() that are awaited in b
StopAllPending(b) ==
    { id \in b.pendingCommands :
        b.cmd[id].op = "stopAll" /\ b.cmd[id].out = << >> }

C10_ShutdownFailsEveryPending ==
    isInitialized =>
        \A wr \in Outcomes :
            LET e == Drain(shutdown(Now, wr), wr)
                pending == pendingCommands \cup pendingRequests
            IN ~e.isInitialized =>
                   /\ e.pendingCommands = {}
                   /\ e.pendingRequests = {}
                   /\ \A id \in pending :
                          /\ id \notin e.timers
                          /\ Waiting(id) =>
                                 e.cmd[id].out = << "BRIDGE_SHUTDOWN" >>

\* the stop_swarm commands of a shutdown() that are awaited in b
ShutdownPending(b) ==
    { id \in b.pendingCommands :
        b.cmd[id].op = "shutdown" /\ b.cmd[id].out = << >> }

\* a shutdown() in progress is run to its end: each stop_swarm command it
\* awaits fails by its deadline
RECURSIVE ShutdownRun(_, _)
ShutdownRun(b, wr) ==
    IF ShutdownPending(b) = {} \/ b.overflow THEN b
    ELSE LET id == CHOOSE i \in ShutdownPending(b) : TRUE
         IN ShutdownRun(Drain(commandTimeout(b, id), wr), wr)

\* C11: shutdown() of an initialized bridge completes without an error, also
\* when the stop_swarm command of every registered session fails (the
\* sessions of the waiting createSwarm calls taken as registered), and it
\* ends with an empty registry and the bridge not initialized.
C11_ShutdownCompletes ==
    isInitialized =>
        \A wr \in Outcomes :
            LET starts == { id \in pendingCommands :
                              Waiting(id) /\ cmd[id].op = "createSwarm" }
                real == Drain(shutdown(Now, wr), wr)
                b1 == Release(ResolvedAll(Now, starts))
                e == ShutdownRun(Drain(shutdown(b1, wr), wr), wr)
            IN /\ ~real.isInitialized /\ real.thrown = NoThrow
               /\ Keys(real.activeSwarms) = {}
               /\ ~e.overflow =>
                      /\ ~e.isInitialized /\ e.thrown = NoThrow
                      /\ Keys(e.activeSwarms) = {}
                      /\ ShutdownPending(e) = {}

\* a shutdown() has completed and failed a pending command
C11_Witness ==
    /\ ~isInitialized /\ killTimers # << >>
    /\ \E id \in DOMAIN cmd : cmd[id].out = << "BRIDGE_SHUTDOWN" >>

\* C12: when a shutdown() of an initialized bridge has completed, the bridge
\* is not connected and neither the heartbeat timer nor a reconnect timer is
\* armed.
C12_ShutdownTearsDownTransport ==
    isInitialized =>
        \A wr \in Outcomes :
            LET e == Drain(shutdown(Now, wr), wr)
            IN ~e.isInitialized =>
                   /\ ~e.isConnected
                   /\ ~e.heartbeatTimer
                   /\ ~e.reconnectTimer /\ ~e.isReconnecting
\* C13: the kill timer armed by a shutdown() ends no process other than the
\* one that was live when that shutdown() ran, also when initialize() is
\* called before the timer fires.
C13_KillOnlyOwnProcess ==
    killTimers # << >> =>
        LET target == Head(killTimers)
            Killed(b) == killTimeout(b).stopping \ b.stopping
        IN /\ Killed(Now) \subseteq {target}
           /\ Killed(Drain(initialize(Now), "ok")) \subseteq {target}

\* C14: initialize() on an initialized bridge and shutdown() on a bridge
\* that is not initialized change nothing and complete without an error.
C14_IdempotentNoOps ==
    /\ isInitialized => Drain(initialize(Now), "ok") = Now
    /\ ~isInitialized =>
           \A wr \in Outcomes : Drain(shutdown(Now, wr), wr) = Now

\* an initialized bridge with a live process and work in flight
C14_Witness ==
    /\ isInitialized /\ live # {} /\ isConnected
    /\ pendingCommands # {} /\ pendingRequests # {}

\* C15: at most one engine process is live, now and after any call of
\* initialize().
C15_OneLiveProcess ==
    /\ Cardinality(live) <= 1
    /\ Cardinality(Drain(initialize(Now), "ok").live) <= 1

\* C16: an initialize() call whose wait for the connection runs out fails:
\* it does not resolve.
C16_InitializeFailsOnTimeout ==
    initWaiters > 0 => Drain(waitTimeout(Now), "ok").thrown # NoThrow

\* C17: a request that waits for its response while the transport is closed
\* is not failed by its response deadline: it fails with a transport-loss
\* error or stays for retransmission.
C17_LostRequestsFailAsLost ==
    [][\A id \in pendingRequests :
          (ws = "closed" /\ ws' = "closed" /\ Waiting(id)
             /\ cmd'[id].out # << >>)
          => Head(cmd'[id].out) \notin TimeoutOutcomes]_vars
\* the state when the socket's open handler has run: the flush of the queue
Flushed(hb) == Drain(onOpen([ Now EXCEPT !.ws = "open" ], hb), "ok")

\* C18: the queue never holds more than maxQueueSize items, and a
\* sendMessage on a disconnected bridge whose queue is full is rejected at
\* once with 'Message queue full' and changes nothing, the queue included.
C18_QueueFullRejects ==
    /\ Len(messageQueue) <= MaxQueue
    /\ (~isConnected /\ Len(messageQueue) >= MaxQueue) =>
           \A data \in {"ok", "cyclic"} :
               LET e == Drain(sendMessage(Now, data), "ok")
               IN /\ e.thrown.code = "QUEUE_FULL"
                  /\ e.messageQueue = messageQueue
                  /\ [ e EXCEPT !.thrown = NoThrow ] = Now

\* a disconnected bridge with a full queue
C18_Witness == ~isConnected /\ Len(messageQueue) = MaxQueue

\* C19: the flush at the socket's opening rejects every queued item that is
\* older than the maximum age with 'Message expired'; the item is not
\* written to the socket and nothing of the bridge refers to it afterwards.
C19_ExpiredNeverSent ==
    (ws = "connecting" /\ live # {}) =>
        \A hb \in Outcomes :
            \A i \in DOMAIN messageQueue :
                Expired(messageQueue[i]) =>
                    LET e == Flushed(hb)
                        id == messageQueue[i].id
                    IN /\ e.cmd[id].out = << "MESSAGE_EXPIRED" >>
                       /\ ~e.cmd[id].sent
                       /\ id \notin Range(e.wire)
                       /\ id \notin Held(e)

\* a queued caller was rejected as expired and its message never sent
C19_Witness ==
    \E id \in DOMAIN cmd :
        /\ cmd[id].out = << "MESSAGE_EXPIRED" >> /\ ~cmd[id].sent
        /\ ws = "open"

\* the ids of the queue items q, in queue order
RECURSIVE IdsOf(_)
IdsOf(q) == IF q = << >> THEN << >> ELSE << Head(q).id >> \o IdsOf(Tail(q))

\* C20: the flush at the socket's opening writes the queued items that are
\* not expired (and can be serialized) to the socket in queue order, each
\* once, and leaves the queue empty.
C20_FlushInOrder ==
    (ws = "connecting" /\ live # {}) =>
        \A hb \in Outcomes :
            LET e == Flushed(hb)
                survivors == SelectSeq(messageQueue,
                                 LAMBDA it : ~Expired(it) /\ it.data = "ok")
            IN /\ e.wire = IdsOf(survivors)
               /\ e.messageQueue = << >>
               /\ \A k \in DOMAIN survivors :
                      /\ e.cmd[survivors[k].id].sent
                      /\ survivors[k].id \in e.pendingRequests

\* the socket is about to open with two queued items that are not expired
C20_Witness ==
    /\ ws = "connecting" /\ live # {}
    /\ Len(messageQueue) = 2
    /\ \A i \in DOMAIN messageQueue :
           ~Expired(messageQueue[i]) /\ messageQueue[i].data = "ok"
Reconnecting == retryCount > 0 /\ (isReconnecting \/ ws = "connecting")

\* C22: checkHealth reports unhealthy exactly when the process is not
\* running or the bridge is not initialized, else degraded exactly when
\* reconnect attempts are nonzero or more than the threshold of commands are
\* pending, else healthy; it never reports healthy while a reconnection of
\* the socket with a nonzero attempt count is going on.
C22_HealthStatus ==
    LET status == checkHealth(Now)
        down == ~processRunning(Now) \/ ~isInitialized
        strained == reconnectAttempts > 0
                       \/ Cardinality(pendingCommands) > HealthThreshold
    IN /\ status = "unhealthy" <=> down
       /\ status = "degraded" <=> (~down /\ strained)
       /\ status = "healthy" <=> (~down /\ ~strained)
       /\ status = "healthy" => ~Reconnecting
\* the operations that await one command and rethrow its failure
Awaiting == {"createSwarm", "stopSwarm", "stopAll", "optimizeSwarm",
             "executeCode"}

\* C23: a public operation whose command times out rejects with
\* COMMAND_TIMEOUT, and stopSwarm and optimizeSwarm for a session that is
\* not registered fail with SWARM_NOT_FOUND.
C23_ErrorsIdentifyCause ==
    /\ \A id \in pendingCommands \cap timers :
          (Waiting(id) /\ cmd[id].op \in Awaiting) =>
              LET e == commandTimeout(Now, id)
              IN Rejection(cmd[id].op, Head(e.cmd[id].out))
                     = "COMMAND_TIMEOUT"
    /\ isInitialized =>
          \A s \in Swarms :
              ~Has(activeSwarms, s) =>
                  /\ stopSwarm(Now, s, "ok").thrown.code = "SWARM_NOT_FOUND"
                  /\ optimizeSwarm(Now, s, "ok", "ok").thrown.code
                         = "SWARM_NOT_FOUND"
\* the current process has exited and nothing is scheduled that would
\* bring the bridge back: no reconnect timer, no retry of initialize, no
\* initialize() waiting for the connection
Abandoned ==
    /\ juliaProcess # 0 /\ juliaProcess \notin live
    /\ ~isConnected /\ ws # "connecting"
    /\ reconnectTimers = 0 /\ initTimers = 0 /\ initWaiters = 0

\* C24: when the process has exited and no retry is pending, a new message
\* or command fails at once: a sendMessage is rejected instead of queued,
\* and a command is left neither pending nor waiting for its deadline.
C24_FailFastWhenAbandoned ==
    Abandoned =>
        /\ \A data \in {"ok", "cyclic"} :
               LET e == Drain(sendMessage(Now, data), "ok")
               IN e.thrown # NoThrow /\ e.messageQueue = messageQueue
        /\ \A data \in {"ok", "limit"}, wr \in Outcomes :
               LET e == Drain(executeCode(Now, data, wr), wr)
               IN e.overflow \/
                  (e.pendingCommands = pendingCommands /\ e.timers = timers)
\* b is connected, or on its way back: a connection attempt is going on, a
\* retry is scheduled, or the fatal error has been raised
Recovering(b) ==
    \/ b.isConnected \/ b.ws = "connecting"
    \/ b.reconnectTimers > 0 \/ b.initTimers > 0 \/ b.initWaiters > 0
    \/ b.fatal

\* the socket's error and close events on a connection attempt that fails
AttemptFailed ==
    Drain(handleDisconnect(handleError([ Now EXCEPT !.ws = "closed" ])), "ok")

\* C25: an initialized bridge is never left disconnected with no connection
\* attempt going on, no retry scheduled and no fatal error raised; in
\* particular a connection attempt that fails schedules a retry or raises
\* the fatal error.
C25_RetryAlwaysPending ==
    isInitialized =>
        /\ Recovering(Now)
        /\ ws = "connecting" => Recovering(AttemptFailed)
\* C26: the attempt counter retryCount is 0 whenever the bridge is
\* connected, so the reconnect that a disconnect of a connected bridge
\* schedules (attempt 0 since the last successful connection) is delayed by
\* reconnectInterval * backoffMultiplier^0 = reconnectInterval.
C26_BackoffFromZero ==
    isConnected =>
        /\ retryCount = 0
        /\ LET delay == calculateBackoffDelay(Now)
           IN delay.num = reconnectInterval * delay.den
\* C27: at most one reconnect timer is pending, and the field reconnectTimer
\* is set exactly while it is; scheduleReconnect changes nothing while a
\* reconnect is pending; and the disconnect signals of one failure (socket
\* error and close, a failed heartbeat send, the process's exit), arriving
\* one after the other, leave one timer pending, armed by the first signal
\* when the bridge was connected and none was pending.
C27_OneReconnectTimer ==
    LET close == handleDisconnect(Now)
        errorClose == handleDisconnect(handleError(close))
        heartbeat == sendHeartbeat(errorClose, "throw")
    IN /\ reconnectTimers <= 1
       /\ reconnectTimer <=> reconnectTimers = 1
       /\ (isReconnecting \/ reconnectTimer) => scheduleReconnect(Now) = Now
       /\ \A e \in {close, errorClose, heartbeat}
                   \cup { onExit(heartbeat, p) : p \in live } :
              /\ e.reconnectTimers <= 1
              /\ e.reconnectTimer <=> e.reconnectTimers = 1
              /\ isConnected => e.reconnectTimers = 1
              /\ (isConnected /\ reconnectTimers = 0) => e.isReconnecting

\* the bridge is connected again while the reconnect of an earlier failure
\* is still pending
C27_Witness == isConnected /\ reconnectTimers = 1 /\ live # {}
\* C28: the bridge is never connected while a reconnect is pending
\* (isReconnecting set or the reconnect timer armed).
C28_ConnectedOrReconnecting ==
    ~(isConnected /\ (isReconnecting \/ reconnectTimer))

\* C29: retryCount never exceeds maxRetries + 1 and reconnectAttempts never
\* exceeds maxReconnectAttempts; once reconnectAttempts has reached the cap,
\* neither handleReconnect nor the catch block of initialize schedules
\* another retry, and the failing initialize() throws
\* INITIALIZATION_FAILED.
C29_RetriesBounded ==
    /\ retryCount <= maxRetries + 1
    /\ reconnectAttempts <= maxReconnectAttempts
    /\ reconnectAttempts = maxReconnectAttempts =>
           /\ handleReconnect(Now) = Now
           /\ LET e == initializeCatch(Now)
              IN /\ e.initTimers = initTimers
                 /\ e.reconnectAttempts = reconnectAttempts
                 /\ e.thrown.code = "INITIALIZATION_FAILED"

\* the attempts are used up and no retry is pending
C29_Witness == reconnectAttempts = maxReconnectAttempts /\ initTimers = 0

\* C30: when the bridge is connected and initialized, its process runs and
\* no retry of initialize is pending, reconnectAttempts is 0 (so that
\* checkHealth does not report degraded for it).
C30_AttemptsResetWhenBack ==
    (isInitialized /\ isConnected /\ processRunning(Now)
        /\ initTimers = 0 /\ initWaiters = 0)
    => reconnectAttempts = 0
\* C31: when the write callback of a command reports an error, or a command
\* finds stdin not writable, and the attempt cap is not reached, a retry is
\* scheduled, and when its timer fires the bridge spawns a process (the
\* start of its start/connect sequence).
C31_WriteFailureReconnects ==
    reconnectAttempts < maxReconnectAttempts =>
        /\ \A id \in writes \cap pendingCommands :
               LET e1 == Drain(writeCallback(Now, id, TRUE), "ok")
                   e2 == Drain(initTimeout(e1), "ok")
               IN /\ e1.initTimers = initTimers + 1
                  /\ e2.juliaProcess # e1.juliaProcess
                  /\ e2.juliaProcess \in e2.live
        /\ (CanSend(Now) /\ ~stdinWritable /\ FreshId(Now) # 0) =>
               LET e1 == Drain(executeCode(Now, "ok", "ok"), "ok")
                   e2 == Drain(initTimeout(e1), "ok")
               IN /\ e1.initTimers = initTimers + 1
                  /\ e2.juliaProcess # e1.juliaProcess
                  /\ e2.juliaProcess \in e2.live
\* C33: the heartbeat timer is armed only while the bridge is connected, and
\* its callback sends no heartbeat while the bridge is not connected.
C33_HeartbeatOnlyWhileConnected ==
    /\ heartbeatTimer => isConnected
    /\ ~isConnected =>
           \A hb \in Outcomes : sendHeartbeat(Now, hb).faults = faults

\* C34: when the current process exits without having been asked to, the
\* bridge is not connected afterwards and a reconnect is pending, whether
\* the bridge was connected, connecting or disconnected at the exit.
C34_ExitTriggersReconnect ==
    \A p \in live \ stopping :
        p = juliaProcess =>
            LET e == Drain(onExit(Now, p), "ok")
            IN /\ ~e.isConnected
               /\ e.isReconnecting \/ e.reconnectTimers > 0
\* the createSwarm calls whose start_swarm command is awaited
Starts ==
    { id \in pendingCommands : Waiting(id) /\ cmd[id].op = "createSwarm" }

\* the bridge with the sessions of the calls in Starts registered
Registered == Release(ResolvedAll(Now, Starts))

\* C35: with the sessions of the waiting createSwarm calls registered, the
\* handlers of the connection (socket error and close, process exit,
\* reconnect timer, readiness line, socket open with the flush of the
\* queue, heartbeat tick, heartbeat message) leave the registry as it is.
C35_RegistrySurvivesReconnect ==
    LET b == Registered
        Same(e) == Drain(e, "ok").activeSwarms = b.activeSwarms
    IN /\ Same(handleDisconnect(b))
       /\ Same(handleDisconnect(handleError([ b EXCEPT !.ws = "closed" ])))
       /\ \A p \in live : Same(onExit(b, p))
       /\ Same(reconnectTimeout(b))
       /\ Same(connectWebSocket(b))
       /\ \A hb \in Outcomes :
              /\ Same(onOpen([ b EXCEPT !.ws = "open" ], hb))
              /\ Same(sendHeartbeat(b, hb))
       /\ Same(onMessage(b, [ type |-> "heartbeat", id |-> 0,
                              error |-> FALSE ]))

\* a createSwarm call is awaited on a connected bridge
C35_Witness == Starts # {} /\ isConnected /\ Keys(Registered.activeSwarms) # {}
\* a payload that JSON.parse rejects, whatever id its text holds
Malformed(id) == [ type |-> "malformed", id |-> id, error |-> FALSE ]

StopsFor(b, s) ==
    { id \in b.pendingCommands :
        /\ b.cmd[id].kind = "stop_swarm" /\ b.cmd[id].swarm = s
        /\ b.cmd[id].sent /\ b.cmd[id].out = << >> }

C39_QueueEmptyWhileConnected ==
    /\ isConnected => messageQueue = << >>
    /\ isConnected =>
           \A data \in {"ok", "cyclic"} :
               Drain(sendMessage(Now, data), "ok").messageQueue = << >>
    /\ (ws = "connecting" /\ live # {}) =>
           \A hb \in Outcomes :
               Flushed(hb).isConnected => Flushed(hb).messageQueue = << >>

\* the bridge is connected after a flush that rejected an expired item
C39_Witness ==
    /\ isConnected /\ messageQueue = << >>
    /\ \E id \in DOMAIN cmd : cmd[id].out = << "MESSAGE_EXPIRED" >>

\* C40: an id is in a pending table exactly while its caller is unsettled
\* and its deadline timer is armed.
C40_EntryWhileUnsettled ==
    \A id \in DOMAIN cmd :
        id \in pendingCommands \cup pendingRequests
            <=> (Waiting(id) /\ id \in timers)
\* the heartbeat settings of the constructor (lines 203-204), in ms
heartbeatInterval == 30000
heartbeatTimeout == 10000

\* the number of consecutive interval callbacks after which the time since
\* the first of them exceeds heartbeatTimeout
StaleTicks == heartbeatTimeout \div heartbeatInterval + 2

\* n callbacks of the heartbeat interval (lines 630-632) whose sends
\* succeed, with no message arriving between them
RECURSIVE Ticks(_, _)
Ticks(b, n) ==
    IF n = 0 THEN b
    ELSE Ticks(Drain(sendHeartbeat(b, "ok"), "ok"), n - 1)

\* C32: a connected bridge that receives no heartbeat message for longer
\* than heartbeatTimeout is disconnected and reconnects: after StaleTicks
\* interval callbacks with no message in between, the bridge is not
\* connected or is reconnecting.
C32_StaleHeartbeatDisconnects ==
    (isConnected /\ heartbeatTimer) =>
        LET e == Ticks(Now, StaleTicks)
        IN ~e.isConnected \/ e.isReconnecting \/ e.reconnectTimers > 0
=============================================================================
